---- MODULE Spec2Model ----
(***************************************************************************)
(* create_square_grid of utils/gridder/create_grid.py as a state machine.  *)
(*                                                                         *)
(* One call runs through the function top to bottom: the variable init     *)
(* block, _check_input, the lattice coordinates (np.arange and the         *)
(* Cartesian product), the optional fuzz, and the two data frames with the *)
(* edges of _gen_grid_edges.  A call ends in pc = "done" (the frames are   *)
(* returned) or pc = "raised" (an exception left the function).            *)
(*                                                                         *)
(* Numbers.  TLC has integers only, so every coordinate is an integer      *)
(* count of 1/Unit: origin components are held in tenths, noise_prop in    *)
(* hundredths (0.45 is 45) and an outcome of np.random.rand() is r /       *)
(* RandSteps for r in 0 .. RandSteps-1, which covers rand's range [0, 1)   *)
(* from its lower end.  Arithmetic on these is exact; the one place where  *)
(* double-precision rounding changes what the function does, the length    *)
(* np.arange computes for a float origin, is tabulated in DoubleRoundsUp.  *)
(* The epsg parameter only labels the frames and is left out.              *)
(***************************************************************************)
EXTENDS Integers, Sequences, FiniteSets, TLC

\* ------------------------------------------------------------------ bounds
MaxEdge == 2        \* num_edge_x, num_edge_y are drawn from 0 .. MaxEdge
MaxStep == 2        \* dx, dy are drawn from -1 .. MaxStep
RandSteps == 3      \* np.random.rand() returns one of 0/RandSteps .. (RandSteps-1)/RandSteps
MaxOtherDraws == 1  \* draws other code may take from the shared source between two calls

\* --------------------------------------------------------------- constants
\* A ceiling above one half of the spacing.
MAX_NOISE_three_quarters == [num |-> 75, den |-> 100]

\* MAX_NOISE = 0.45, as a fraction.
MAX_NOISE == [num |-> 45, den |-> 100]

\* Coordinate units in 1.0: tenths (origins) x hundredths (noise) x rand steps.
Unit == 10 * MAX_NOISE.den * RandSteps

\* ------------------------------------------------------------ Python values
None == <<>>
Some(v) == <<v>>
\* Python's truth value of an optional number: None and 0 are false.
Truthy(opt) == opt # None /\ opt[1] # 0

\* An origin component: an int, a float (val in tenths) or a string.
PyInt(v) == [kind |-> "int", val |-> v]
PyFloat(tenths) == [kind |-> "float", val |-> tenths]
PyStr == [kind |-> "str", val |-> 0]
\* isinstance(c, (int, float))
IsNumber(c) == c.kind \in {"int", "float"}
\* The value of a numeric component, in tenths.
Tenths(c) == IF c.kind = "int" THEN 10 * c.val ELSE c.val

NoError == [type |-> "none", site |-> "none"]
NoVertex == -1

\* ------------------------------------------------------------------ inputs
Origins ==
    { <<PyInt(0), PyInt(0)>>, <<PyInt(3), PyInt(-2)>>,
      <<PyFloat(5), PyInt(1)>>, <<PyFloat(23), PyInt(0)>>,
      <<PyInt(1)>>, <<PyInt(1), PyInt(2), PyInt(3)>>, <<PyStr, PyInt(0)>> }

Optional(S) == {None} \cup {Some(v) : v \in S}

\* Calls without noise (noise_prop 0) or with a negative noise_prop (-0.05).
PlainCalls ==
    [origo_xy : Origins, num_edge_x : 0 .. MaxEdge, num_edge_y : Optional(0 .. MaxEdge),
     dx : -1 .. MaxStep, dy : Optional(-1 .. MaxStep), noise_prop : {-5, 0}]

\* Calls with noise: 0.2, 0.45 (the ceiling) and 0.9 (above it), on the unit grid.
NoisyCalls ==
    [origo_xy : {<<PyInt(3), PyInt(-2)>>}, num_edge_x : {1}, num_edge_y : {None},
     dx : {2}, dy : {None, Some(1)}, noise_prop : {20, 45, 90}]
    \cup
    [origo_xy : {<<PyInt(0), PyInt(0)>>, <<PyStr, PyInt(0)>>}, num_edge_x : {0, 1},
     num_edge_y : {Some(0)}, dx : {0, 1}, dy : {Some(0)}, noise_prop : {90}]

Calls == PlainCalls \cup NoisyCalls

VARIABLES
    pc,             \* where the call is: called, inited, checked, coords, fuzzed, done, raised
    args,           \* the parameters as passed
    callNo,         \* 1, or 2 for the repeated call with the same parameters
    first,          \* what the first call ended with (for callNo = 2)
    rng,            \* position of the shared random source: draws taken so far
    rng0,           \* rng when the current call started
    dy,             \* the local dy after line 57
    num_edge_y,     \* the local num_edge_y after line 58
    num_vert_x, num_vert_y,
    fuzz_radius_x, fuzz_radius_y,   \* in hundredths of a coordinate
    points,         \* the flat list of (x, y), in 1/Unit
    vdf,            \* the vertex frame: rows [geometry, Vertex]
    edf,            \* the edge frame: rows [geometry, Edge, Vertex1, Vertex2]
    error           \* the exception that left the call, or NoError

vars == <<pc, args, callNo, first, rng, rng0, dy, num_edge_y, num_vert_x, num_vert_y,
          fuzz_radius_x, fuzz_radius_y, points, vdf, edf, error>>

locals == <<dy, num_edge_y, num_vert_x, num_vert_y, fuzz_radius_x, fuzz_radius_y>>

NoResult == [vdf |-> <<>>, edf |-> <<>>, error |-> NoError, pc |-> "none"]

\* ----------------------------------------------------------- _check_input
\* The exception _check_input raises, or "none".
_check_input(origo_xy, nex, ney, ddx, ddy, noise_prop) ==
    IF Len(origo_xy) # 2 \/ ~(\A k \in 1 .. Len(origo_xy) : IsNumber(origo_xy[k]))
    THEN "TypeError"
    ELSE IF nex < 1 \/ ney < 1
    THEN "ValueError"
    ELSE IF ddx < 0 \/ ddy < 0 \/ noise_prop < 0
    THEN "ValueError"
    ELSE "none"

\* ------------------------------------------------------ variable init block
\* dy = dx if not dy else dy
DefaultDy(a) == IF ~Truthy(a.dy) THEN a.dx ELSE a.dy[1]
\* num_edge_y = num_edge_x if not num_edge_y else num_edge_y
DefaultNumEdgeY(a) == IF ~Truthy(a.num_edge_y) THEN a.num_edge_x ELSE a.num_edge_y[1]
\* The radius without the ceiling.
FuzzRadius_unclamped(d, noise_prop) == d * noise_prop

\* fuzz_radius = d * noise_prop, or MAX_NOISE * d when noise_prop > MAX_NOISE (hundredths).
FuzzRadius(d, noise_prop) ==
    IF noise_prop * MAX_NOISE.den > MAX_NOISE.num * 100
    THEN (MAX_NOISE.num * 100 * d) \div MAX_NOISE.den
    ELSE d * noise_prop

\* ---------------------------------------------------------------- np.arange
CeilDiv(a, b) == IF a % b = 0 THEN a \div b ELSE (a \div b) + 1

\* (origin in tenths, step, count) of the model's float origins for which the
\* double-precision quotient ((ori + dc*num) - ori) / dc is above num:
\* 2.3 + 2*3 = 8.3 and (8.3 - 2.3) / 2 = 3.0000000000000004;
\* 2.3 + 3*2 = 8.3 and (8.3 - 2.3) / 3 = 2.0000000000000004;
\* 2.3 + 1*6 = 8.3 and (8.3 - 2.3) / 1 = 6.000000000000001.
\* For the origin 0.5 every such quotient is exact.
DoubleRoundsUp == { <<23, 2, 3>>, <<23, 3, 2>>, <<23, 1, 6>> }

\* len(np.arange(ori, ori + dc*num, dc)) = ceil((stop - start) / step), dc > 0.
ArangeLength(ori, dc, num) ==
    IF ori.kind = "float"
    THEN IF <<ori.val, dc, num>> \in DoubleRoundsUp THEN num + 1 ELSE num
    ELSE CeilDiv((ori.val + dc * num) - ori.val, dc)

\* np.arange(ori, ori + dc*num, dc): start + k*step, in tenths.
Arange(ori, dc, num) ==
    [k \in 1 .. ArangeLength(ori, dc, num) |-> Tenths(ori) + (k - 1) * dc * 10]

\* Tenths to coordinate units.
Coord(t) == t * (Unit \div 10)

\* iter_product(coords_x, coords_y): the first factor varies slower.
Product(coords_x, coords_y) ==
    [k \in 1 .. Len(coords_x) * Len(coords_y) |->
        << Coord(coords_x[((k - 1) \div Len(coords_y)) + 1]),
           Coord(coords_y[((k - 1) % Len(coords_y)) + 1]) >>]

\* -------------------------------------------------------------------- _fuzz
\* lim * (2 * rand - 1) for rand = r / RandSteps, lim in hundredths, in 1/Unit.
Displacement(lim, r) == lim * (2 * r - RandSteps) * (Unit \div (100 * RandSteps))

\* _fuzz(xy) with the two draws rx, ry.
_fuzz(xy, rx, ry) ==
    << xy[1] + Displacement(fuzz_radius_x, rx), xy[2] + Displacement(fuzz_radius_y, ry) >>

\* Every list map(_fuzz, pts) can return, over all outcomes of the draws.
RECURSIVE FuzzOutcomes(_)
FuzzOutcomes(pts) ==
    IF pts = <<>> THEN { <<>> }
    ELSE LET front == FuzzOutcomes(SubSeq(pts, 1, Len(pts) - 1))
             last  == { _fuzz(pts[Len(pts)], rx, ry) :
                            rx \in 0 .. RandSteps - 1, ry \in 0 .. RandSteps - 1 }
         IN  { Append(f, q) : f \in front, q \in last }

\* The fuzz applied to every call.
FuzzApplies_always(noise_prop) == noise_prop >= 0

\* if noise_prop > 0.0
FuzzApplies(noise_prop) == noise_prop > 0

\* ---------------------------------------------------------- _gen_grid_edges
\* np.array(points).reshape(nx, ny, 2): row i holds points[i*ny .. i*ny + ny - 1].
Reshape(pts, nx, ny) ==
    [i \in 1 .. nx |-> [j \in 1 .. ny |-> pts[(i - 1) * ny + j]]]

\* np.transpose(point_matrix, (1, 0, 2))
Transpose(m) ==
    [j \in 1 .. Len(m[1]) |-> [i \in 1 .. Len(m) |-> m[i][j]]]

\* [LineString(coords) for coords in zip(row[:-1], row[1:])]
RowEdges(row) == [c \in 1 .. Len(row) - 1 |-> << row[c], row[c + 1] >>]

\* lines.extend(...) for every row of m, in row order.
RECURSIVE PassEdges(_)
PassEdges(m) ==
    IF m = <<>> THEN <<>>
    ELSE PassEdges(SubSeq(m, 1, Len(m) - 1)) \o RowEdges(m[Len(m)])

\* The second loop running over the array as it is, not over its transpose.
_gen_grid_edges_untransposed(point_matrix) ==
    PassEdges(point_matrix) \o PassEdges(point_matrix)

\* The two loops in the other order.
_gen_grid_edges_transposed_first(point_matrix) ==
    PassEdges(Transpose(point_matrix)) \o PassEdges(point_matrix)

_gen_grid_edges(point_matrix) ==
    PassEdges(point_matrix) \o PassEdges(Transpose(point_matrix))

\* The array the edges are made from (line 89).
PointMatrix(pts, nx, ny) == Reshape(pts, nx, ny)

\* ------------------------------------------------------------ data frames
\* vdf: geometry = Point(coo), Vertex = the index.
VertexFrame(pts) == [k \in 1 .. Len(pts) |-> [geometry |-> pts[k], Vertex |-> k - 1]]

\* pdshp.match_vertices_and_edges: the id of the one vertex at coordinate p,
\* NoVertex when no vertex or more than one lies there.
MatchVertex(vf, p) ==
    LET ids == { vf[k].Vertex : k \in { n \in 1 .. Len(vf) : vf[n].geometry = p } }
    IN  IF Cardinality(ids) = 1 THEN CHOOSE v \in ids : TRUE ELSE NoVertex

\* edf: geometry = the segment, Edge = the index, Vertex1/Vertex2 from the matcher.
EdgeFrame(vf, lines) ==
    [k \in 1 .. Len(lines) |->
        [geometry |-> lines[k], Edge |-> k - 1,
         Vertex1 |-> MatchVertex(vf, lines[k][1]),
         Vertex2 |-> MatchVertex(vf, lines[k][2])]]

\* ------------------------------------------------------------------- state
Init ==
    /\ pc = "called"
    /\ args \in Calls
    /\ callNo = 1
    /\ first = NoResult
    /\ rng = 0
    /\ rng0 = 0
    /\ dy = 0 /\ num_edge_y = 0 /\ num_vert_x = 0 /\ num_vert_y = 0
    /\ fuzz_radius_x = 0 /\ fuzz_radius_y = 0
    /\ points = <<>>
    /\ vdf = <<>>
    /\ edf = <<>>
    /\ error = NoError

Raise(type, site) ==
    /\ pc' = "raised"
    /\ error' = [type |-> type, site |-> site]

\* Lines 55-67.  xx, yy = origo_xy raises ValueError unless origo_xy has two items.
VariableInit ==
    /\ pc = "called"
    /\ IF Len(args.origo_xy) # 2
       THEN /\ Raise("ValueError", "unpack")
            /\ UNCHANGED locals
       ELSE /\ dy' = DefaultDy(args)
            /\ num_edge_y' = DefaultNumEdgeY(args)
            /\ num_vert_x' = args.num_edge_x + 1
            /\ num_vert_y' = DefaultNumEdgeY(args) + 1
            /\ fuzz_radius_x' = FuzzRadius(args.dx, args.noise_prop)
            /\ fuzz_radius_y' = FuzzRadius(DefaultDy(args), args.noise_prop)
            /\ pc' = "inited"
            /\ UNCHANGED error
    /\ UNCHANGED <<args, callNo, first, rng, rng0, points, vdf, edf>>

\* Line 69.
CheckInput ==
    /\ pc = "inited"
    /\ LET e == _check_input(args.origo_xy, args.num_edge_x, num_edge_y,
                             args.dx, dy, args.noise_prop)
       IN  IF e # "none"
           THEN Raise(e, "_check_input")
           ELSE pc' = "checked" /\ UNCHANGED error
    /\ UNCHANGED <<args, callNo, first, rng, rng0, locals, points, vdf, edf>>

\* Lines 72-77.  np.arange with a step of 0 divides by it to find its length:
\* ZeroDivisionError.
GenerateCoords ==
    /\ pc = "checked"
    /\ IF args.dx = 0 \/ dy = 0
       THEN /\ Raise("ZeroDivisionError", "arange")
            /\ UNCHANGED points
       ELSE /\ points' = Product(Arange(args.origo_xy[1], args.dx, num_vert_x),
                                 Arange(args.origo_xy[2], dy, num_vert_y))
            /\ pc' = "coords"
            /\ UNCHANGED error
    /\ UNCHANGED <<args, callNo, first, rng, rng0, locals, vdf, edf>>

\* Lines 80-85.  Two draws per point when the fuzz applies, none otherwise.
AddFuzz ==
    /\ pc = "coords"
    /\ IF FuzzApplies(args.noise_prop)
       THEN /\ points' \in FuzzOutcomes(points)
            /\ rng' = rng + 2 * Len(points)
       ELSE UNCHANGED <<points, rng>>
    /\ pc' = "fuzzed"
    /\ UNCHANGED <<args, callNo, first, rng0, locals, vdf, edf, error>>

\* Lines 88-100.  reshape raises ValueError when the sizes disagree.
CreateFrames ==
    /\ pc = "fuzzed"
    /\ IF Len(points) # num_vert_x * num_vert_y
       THEN /\ Raise("ValueError", "reshape")
            /\ UNCHANGED <<vdf, edf>>
       ELSE /\ vdf' = VertexFrame(points)
            /\ edf' = EdgeFrame(VertexFrame(points),
                                _gen_grid_edges(PointMatrix(points, num_vert_x, num_vert_y)))
            /\ pc' = "done"
            /\ UNCHANGED error
    /\ UNCHANGED <<args, callNo, first, rng, rng0, locals, points>>

\* The caller repeats a call without noise with the same parameters; other code
\* may have drawn from the shared random source in between.
Recall ==
    /\ pc \in {"done", "raised"}
    /\ callNo = 1
    /\ args.noise_prop = 0
    /\ first' = [vdf |-> vdf, edf |-> edf, error |-> error, pc |-> pc]
    /\ callNo' = 2
    /\ \E other \in 0 .. MaxOtherDraws : rng' = rng + other /\ rng0' = rng + other
    /\ pc' = "called"
    /\ dy' = 0 /\ num_edge_y' = 0 /\ num_vert_x' = 0 /\ num_vert_y' = 0
    /\ fuzz_radius_x' = 0 /\ fuzz_radius_y' = 0
    /\ points' = <<>>
    /\ vdf' = <<>>
    /\ edf' = <<>>
    /\ error' = NoError
    /\ UNCHANGED args

Next ==
    \/ VariableInit
    \/ CheckInput
    \/ GenerateCoords
    \/ AddFuzz
    \/ CreateFrames
    \/ Recall

Spec == Init /\ [][Next]_vars

\* ============================================================== properties
Ended == pc \in {"done", "raised"}

\* origo_xy has exactly two numeric components.
WellFormedOrigin ==
    /\ Len(args.origo_xy) = 2
    /\ \A k \in 1 .. Len(args.origo_xy) : IsNumber(args.origo_xy[k])

\* The parameter values of the call, an omitted one standing for its default.
PassedNumEdgeY == IF args.num_edge_y = None THEN args.num_edge_x ELSE args.num_edge_y[1]
PassedDy == IF args.dy = None THEN args.dx ELSE args.dy[1]

\* num_edge_x >= 1, num_edge_y >= 1, dx > 0, dy > 0, noise_prop >= 0, a well-formed origin.
ValidCall ==
    /\ WellFormedOrigin
    /\ args.num_edge_x >= 1 /\ PassedNumEdgeY >= 1
    /\ args.dx > 0 /\ PassedDy > 0
    /\ args.noise_prop >= 0

\* The unperturbed lattice position of indices (i, j), counted from 0, for steps sx, sy.
LatticePoint(i, j, sx, sy) ==
    << Coord(Tenths(args.origo_xy[1]) + i * sx * 10),
       Coord(Tenths(args.origo_xy[2]) + j * sy * 10) >>

\* Lattice indices of the vertex with identifier k in a lattice with ny columns.
RowOf(k, ny) == k \div ny
ColOf(k, ny) == k % ny

\* The coordinate of the vertex with identifier k in the returned vertex frame.
VertexAt(k) == vdf[k + 1].geometry

Abs(x) == IF x < 0 THEN -x ELSE x
Min(a, b) == IF a < b THEN a ELSE b

\* ---------------------------------------------------------------------- C1
\* C1: every call with num_edge_x >= 1, num_edge_y >= 1, dx > 0, dy > 0 and
\* noise_prop >= 0 returns (num_edge_x+1)*(num_edge_y+1) vertices and
\* num_edge_x*(num_edge_y+1) + num_edge_y*(num_edge_x+1) edges.
C1_CountsOfEveryValidCall ==
    (Ended /\ ValidCall) =>
        /\ pc = "done"
        /\ Len(vdf) = (args.num_edge_x + 1) * (PassedNumEdgeY + 1)
        /\ Len(edf) = args.num_edge_x * (PassedNumEdgeY + 1)
                        + PassedNumEdgeY * (args.num_edge_x + 1)

\* What holds of C1 where np.arange is exact: with an origin of ints the counts
\* are as C1 states.
C1_CountsWithIntegerOrigin ==
    (Ended /\ ValidCall /\ \A k \in 1 .. 2 : args.origo_xy[k].kind = "int") =>
        /\ pc = "done"
        /\ Len(vdf) = (args.num_edge_x + 1) * (PassedNumEdgeY + 1)
        /\ Len(edf) = args.num_edge_x * (PassedNumEdgeY + 1)
                        + PassedNumEdgeY * (args.num_edge_x + 1)

\* ---------------------------------------------------------------------- C2
\* C2: with noise_prop = 0 and dx, dy > 0 the vertex identifiers are exactly
\* 0 .. (num_edge_x+1)*(num_edge_y+1)-1 and vertex k lies at
\* (x0 + i*dx, y0 + j*dy), i = k div (num_edge_y+1), j = k mod (num_edge_y+1),
\* for every valid num_edge_x, num_edge_y and origin.
C2_LatticeCoordinatesWithoutNoise ==
    (Ended /\ ValidCall /\ args.noise_prop = 0) =>
        /\ pc = "done"
        /\ Len(vdf) = (args.num_edge_x + 1) * (PassedNumEdgeY + 1)
        /\ \A k \in 0 .. Len(vdf) - 1 :
              /\ vdf[k + 1].Vertex = k
              /\ VertexAt(k) = LatticePoint(RowOf(k, PassedNumEdgeY + 1),
                                            ColOf(k, PassedNumEdgeY + 1),
                                            args.dx, PassedDy)

\* What holds of C2: every grid that is returned without noise has the
\* identifiers and the coordinates C2 states.
C2_LatticeCoordinatesWhenReturned ==
    (pc = "done" /\ ValidCall /\ args.noise_prop = 0) =>
        /\ Len(vdf) = (args.num_edge_x + 1) * (PassedNumEdgeY + 1)
        /\ \A k \in 0 .. Len(vdf) - 1 :
              /\ vdf[k + 1].Vertex = k
              /\ VertexAt(k) = LatticePoint(RowOf(k, PassedNumEdgeY + 1),
                                            ColOf(k, PassedNumEdgeY + 1),
                                            args.dx, PassedDy)

\* ---------------------------------------------------------------------- C3
\* C3: a call whose num_edge_x or num_edge_y is passed below 1 (a num_edge_y of 0
\* beside a num_edge_x >= 1 included) fails with a value error and produces no
\* vertices or edges.  Stated for calls whose other parameters are valid.
C3_EdgeCountBelowOneIsValueError ==
    ( /\ Ended
      /\ WellFormedOrigin /\ args.dx > 0 /\ PassedDy > 0 /\ args.noise_prop >= 0
      /\ (args.num_edge_x < 1 \/ (args.num_edge_y # None /\ args.num_edge_y[1] < 1)) ) =>
        /\ pc = "raised"
        /\ error.type = "ValueError"
        /\ vdf = <<>> /\ edf = <<>>

\* ---------------------------------------------------------------------- C4
\* C4: a call whose origin does not have exactly two numeric components (length
\* 1, length 3 or more, or length 2 with a non-numeric component) fails with
\* TypeError and with no other kind of error.
C4_MalformedOriginIsTypeError ==
    (Ended /\ ~WellFormedOrigin) => (pc = "raised" /\ error.type = "TypeError")

\* ---------------------------------------------------------------------- C5
\* C5: a spacing of zero is accepted and honoured: with a valid origin, valid
\* edge counts, noise_prop >= 0, no negative spacing and dx = 0 or a passed
\* dy = 0, the call raises nothing and places the vertices with exactly the
\* passed spacing.
C5_ZeroSpacingIsHonoured ==
    ( /\ Ended
      /\ WellFormedOrigin
      /\ \A k \in 1 .. 2 : args.origo_xy[k].kind = "int"
      /\ args.num_edge_x >= 1 /\ PassedNumEdgeY >= 1
      /\ args.noise_prop = 0
      /\ args.dx >= 0 /\ PassedDy >= 0
      /\ (args.dx = 0 \/ args.dy = Some(0)) ) =>
        /\ pc = "done"
        /\ \A k \in 0 .. Len(vdf) - 1 :
              VertexAt(k) = LatticePoint(RowOf(k, PassedNumEdgeY + 1),
                                         ColOf(k, PassedNumEdgeY + 1),
                                         args.dx, PassedDy)

\* ---------------------------------------------------------------------- C6
\* The radius the claim names, d * min(noise_prop, 0.45), in 1/Unit.
ClaimedRadius(d) == d * Min(args.noise_prop, 45) * (Unit \div 100)

\* C6: with noise_prop > 0 every vertex lies within rx = dx*min(noise_prop, 0.45)
\* of its lattice position in x and within ry = dy*min(noise_prop, 0.45) in y,
\* whatever the draws (dx, dy > 0); a noise_prop above 0.45 gives the radii of 0.45.
C6_PerturbationWithinClampedRadius ==
    (pc = "done" /\ ValidCall /\ args.noise_prop > 0) =>
        \A k \in 0 .. Len(vdf) - 1 :
            LET nominal == LatticePoint(RowOf(k, PassedNumEdgeY + 1),
                                        ColOf(k, PassedNumEdgeY + 1), args.dx, PassedDy)
            IN  /\ Abs(VertexAt(k)[1] - nominal[1]) <= ClaimedRadius(args.dx)
                /\ Abs(VertexAt(k)[2] - nominal[2]) <= ClaimedRadius(PassedDy)

\* A grid made with noise_prop = 0.9 in which one vertex sits a full clamped
\* radius below its lattice position in x and another is moved up from it.
C6_Witness ==
    /\ pc = "done" /\ ValidCall /\ args.noise_prop = 90
    /\ \E k \in 0 .. Len(vdf) - 1 :
          VertexAt(k)[1] = LatticePoint(RowOf(k, 2), 0, args.dx, 0)[1] - ClaimedRadius(args.dx)
    /\ \E k \in 0 .. Len(vdf) - 1 :
          VertexAt(k)[1] > LatticePoint(RowOf(k, 2), 0, args.dx, 0)[1]

\* ---------------------------------------------------------------------- C7
\* Vertices a and b (identifiers) are one step apart along exactly one axis.
Adjacent(a, b) ==
    \/ RowOf(a, num_vert_y) = RowOf(b, num_vert_y)
         /\ Abs(ColOf(a, num_vert_y) - ColOf(b, num_vert_y)) = 1
    \/ ColOf(a, num_vert_y) = ColOf(b, num_vert_y)
         /\ Abs(RowOf(a, num_vert_y) - RowOf(b, num_vert_y)) = 1

\* The edges (row numbers of edf) that join the coordinates of vertices a and b.
EdgesJoining(a, b) ==
    { e \in 1 .. Len(edf) :
        {edf[e].geometry[1], edf[e].geometry[2]} = {VertexAt(a), VertexAt(b)} }

\* C7: in every generated grid each edge joins the coordinates of two vertices
\* one lattice step apart along one axis, and every such pair of vertices is
\* joined by exactly one edge.
C7_EdgesAreExactlyTheLatticeAdjacencies ==
    pc = "done" =>
        /\ \A e \in 1 .. Len(edf) :
              \E a, b \in 0 .. Len(vdf) - 1 :
                  /\ Adjacent(a, b)
                  /\ edf[e].geometry = << VertexAt(a), VertexAt(b) >>
        /\ \A a, b \in 0 .. Len(vdf) - 1 :
              (a < b /\ Adjacent(a, b)) => Cardinality(EdgesJoining(a, b)) = 1

\* A returned grid with noise whose vertices 0 and 1 both left the lattice.
C7_Witness ==
    /\ pc = "done" /\ args.noise_prop > 0 /\ Len(edf) = 4
    /\ VertexAt(0) # LatticePoint(0, 0, args.dx, PassedDy)
    /\ VertexAt(1)[2] > LatticePoint(0, 1, args.dx, PassedDy)[2]

\* ---------------------------------------------------------------------- C8
\* The vertices (identifiers) whose coordinate is p.
VerticesAt(p) == { k \in 0 .. Len(vdf) - 1 : VertexAt(k) = p }

\* C8: in every generated grid the vertex coordinates are pairwise distinct,
\* each edge endpoint is the coordinate of exactly one vertex, and Vertex1 and
\* Vertex2 are the identifiers of the vertices at the edge's two endpoints.
C8_EndpointsMatchExactlyOneVertex ==
    pc = "done" =>
        /\ \A a, b \in 0 .. Len(vdf) - 1 : a # b => VertexAt(a) # VertexAt(b)
        /\ \A e \in 1 .. Len(edf) :
              /\ Cardinality(VerticesAt(edf[e].geometry[1])) = 1
              /\ Cardinality(VerticesAt(edf[e].geometry[2])) = 1
              /\ edf[e].Vertex1 \in 0 .. Len(vdf) - 1
              /\ edf[e].Vertex2 \in 0 .. Len(vdf) - 1
              /\ {VertexAt(edf[e].Vertex1), VertexAt(edf[e].Vertex2)}
                    = {edf[e].geometry[1], edf[e].geometry[2]}

\* A grid made with noise_prop above the ceiling in which two neighbours moved
\* towards each other in x as far as the draws allow.
C8_Witness ==
    /\ pc = "done" /\ ValidCall /\ args.noise_prop = 90
    /\ VertexAt(0)[1] > LatticePoint(0, 0, args.dx, PassedDy)[1]
    /\ VertexAt(2)[1] = LatticePoint(1, 0, args.dx, PassedDy)[1] - ClaimedRadius(args.dx)
    /\ edf[3].Vertex1 = 0 /\ edf[3].Vertex2 = 2

\* ---------------------------------------------------------------------- C9
\* C9: with noise_prop = 0 the call takes no draw from the shared random source,
\* and a second call with the same parameters ends as the first did, with the
\* same vertex and edge frames, wherever the random source stood before it.
C9_NoNoiseIsDeterministic ==
    args.noise_prop = 0 =>
        /\ rng = rng0
        /\ (callNo = 2 /\ Ended) =>
              /\ pc = first.pc
              /\ error = first.error
              /\ vdf = first.vdf
              /\ edf = first.edf

\* A second call that returned a grid after other code had drawn from the source.
C9_Witness ==
    /\ callNo = 2 /\ pc = "done" /\ args.noise_prop = 0
    /\ rng0 > 0 /\ Len(edf) > 4

\* --------------------------------------------------------------------- C10
\* The point at lattice indices (i, j), counted from 1, read off the vertex frame.
V(i, j) == vdf[(i - 1) * num_vert_y + j].geometry

\* An edge made by the first pass: two consecutive points of one row (same i).
FirstPassEdge(g) ==
    \E i \in 1 .. num_vert_x, j \in 1 .. num_vert_y - 1 : g = << V(i, j), V(i, j + 1) >>

\* An edge made by the pass over the transposed array (same j).
SecondPassEdge(g) ==
    \E i \in 1 .. num_vert_x - 1, j \in 1 .. num_vert_y : g = << V(i, j), V(i + 1, j) >>

\* C10 as stated: the first num_edge_x*num_vert_y edges are those of the first
\* pass and the edges after them those of the pass over the transposed array.
C10_FirstPassHasNumEdgeXPerRow ==
    pc = "done" =>
        \A k \in 1 .. Len(edf) :
            IF k <= args.num_edge_x * num_vert_y
            THEN FirstPassEdge(edf[k].geometry)
            ELSE SecondPassEdge(edf[k].geometry)

\* C10 as amended: the first pass emits num_edge_y edges per row over num_vert_x
\* rows, so edges 0 .. num_edge_y*num_vert_x - 1 are those of the first pass in
\* row order, followed by the num_edge_x*num_vert_y edges of the pass over the
\* transposed array in transposed row order.
C10_FirstPassHasNumEdgeYPerRow ==
    pc = "done" =>
        LET n1 == num_edge_y * num_vert_x
            n2 == args.num_edge_x * num_vert_y
        IN  /\ Len(edf) = n1 + n2
            /\ \A k \in 1 .. Len(edf) : edf[k].Edge = k - 1
            /\ \A k \in 0 .. n1 - 1 :
                  LET i == (k \div num_edge_y) + 1
                      j == (k % num_edge_y) + 1
                  IN  edf[k + 1].geometry = << V(i, j), V(i, j + 1) >>
            /\ \A k \in 0 .. n2 - 1 :
                  LET j == (k \div args.num_edge_x) + 1
                      i == (k % args.num_edge_x) + 1
                  IN  edf[n1 + k + 1].geometry = << V(i, j), V(i + 1, j) >>

\* A returned grid with one edge along x and two along y.
C10_Witness ==
    /\ pc = "done" /\ args.num_edge_x = 1 /\ num_edge_y = 2
    /\ Len(edf) = 7

====
